---- MODULE Spec2Model ----
(***************************************************************************)
(* Model of scripts/claude-review.py: the tool catalog builder             *)
(* (convert_mcp_tools_to_anthropic_format), the multi-server session       *)
(* manager (multi_mcp_sessions) and the tool-use conversation loop with    *)
(* its fallbacks (call_claude_with_mcp).                                   *)
(*                                                                         *)
(* Tool names are strings, so prefixing and prefix stripping are the       *)
(* string operations of the code.  Review texts are sequences of tokens.   *)
(***************************************************************************)
EXTENDS Integers, Sequences, FiniteSets, TLC

VARIABLES
    pc,                 \* position of the request in call_claude_with_mcp / multi_mcp_sessions
    linear_api_key,     \* input: a Linear credential was supplied (truthy)
    github_mcp_token,   \* input: a GitHub credential was supplied (truthy)
    http_client,        \* input: streamablehttp_client is not None
    listed,             \* input: what each server's list_tools() returns
    conn_fail,          \* input: the step at which each server's connection fails, or "none"
    tool_budget,        \* input: tool invocations the model requests at most
    all_tools,          \* multi_mcp_sessions: merged catalog
    tool_router,        \* multi_mcp_sessions: exposed name -> (session, original name)
    linear_tool_count,
    github_tool_count,
    sessions_to_close,  \* multi_mcp_sessions: tracked (ctx, session) pairs, by server
    conn_log,           \* per server: how its connection block ended
    opened,             \* resources entered with __aenter__: <<kind, server>>
    released,           \* resources on which __aexit__ was called, in order
    aexit_raised,       \* the __aexit__ calls that raised an exception
    body_exit,          \* how the body of the async-with left: none/return/recoverable/other
    messages,           \* call_claude_with_mcp: message history
    iteration,          \* call_claude_with_mcp: turn counter
    tool_call_count,
    linear_issue_data,  \* side-data captured from get_issue, or None
    response,           \* the last model response
    tool_results,       \* results of the batch being handled
    block_idx,          \* position in response.content while handling a batch
    had_linear,
    had_github,
    outcome,            \* what call_claude_with_mcp returned or raised
    exit_kind,          \* which statement ended the conversation
    calls,              \* model API invocations made, by call site
    dispatch_log,       \* session.call_tool invocations made, in order
    last_exc,           \* exception class the last awaited call raised, or "none"
    request,            \* arguments of the last client.messages.create
    posted,             \* async_main: review comments posted to the pull request
    exit_status,        \* async_main: its return value, -1 while it runs
    conv_in,            \* catalog builder applied on its own: its arguments
    conv_out,           \* catalog builder applied on its own: its result
    conv_prev,          \* catalog builder applied on its own: its previous result
    instr_in,           \* extract_reviewer_instructions on its own: the comment body
    instr_out           \* extract_reviewer_instructions on its own: its result

mgr_vars == <<all_tools, tool_router, linear_tool_count, github_tool_count,
              sessions_to_close, conn_log, opened, released, aexit_raised>>
input_vars == <<linear_api_key, github_mcp_token, http_client, listed, conn_fail,
               tool_budget>>
conv_vars == <<conv_in, conv_out, conv_prev, instr_in, instr_out>>
loop_vars == <<messages, iteration, tool_call_count, linear_issue_data, response,
               tool_results, block_idx, dispatch_log, last_exc, request>>
call_vars == <<loop_vars, had_linear, had_github, outcome, exit_kind, calls>>
main_vars == <<posted, exit_status>>
vars == <<pc, input_vars, main_vars, mgr_vars, body_exit, conv_vars, call_vars>>

----------------------------------------------------------------------------
(* Program constants                                                       *)

GITHUB_TOOL_PREFIX == "github_"

GITHUB_ESSENTIAL_TOOLS ==
    {"get_file_contents", "search_code", "get_commit", "list_commits"}

Servers == {"linear", "github"}

----------------------------------------------------------------------------
(* Strings                                                                 *)

\* str.startswith
StartsWith(s, p) == Len(s) >= Len(p) /\ SubSeq(s, 1, Len(p)) = p

\* s[n:]
DropFirst(s, n) == SubSeq(s, n + 1, Len(s))

----------------------------------------------------------------------------
(* Exceptions                                                              *)

\* Exception classes and the classes each is an instance of
Bases(cls) ==
    CASE cls = "TimeoutError" -> {"TimeoutError", "Exception"}
      [] cls = "ConnectionError" -> {"ConnectionError", "OSError", "Exception"}
      [] cls = "FileNotFoundError" -> {"FileNotFoundError", "OSError", "Exception"}
      [] cls = "OSError" -> {"OSError", "Exception"}
      [] cls = "RuntimeError" -> {"RuntimeError", "Exception"}
      [] OTHER -> {cls, "Exception"}

Catches(handler, cls) == Bases(cls) \cap handler # {}

\* line 1065: except (asyncio.TimeoutError, ConnectionError, FileNotFoundError, OSError)
FallbackHandlerMut ==
    {"TimeoutError", "ConnectionError", "FileNotFoundError", "OSError", "Exception"}
FallbackHandler == {"TimeoutError", "ConnectionError", "FileNotFoundError", "OSError"}

\* How an exception of class cls leaves the body of the async-with
BodyExitFor(cls) == IF Catches(FallbackHandler, cls) THEN "recoverable" ELSE "other"

----------------------------------------------------------------------------
(* Tool Catalog Builder                                                    *)

\* An MCP tool descriptor as list_tools() returns it.  description "" stands
\* for a missing/empty description, inputSchema "ABSENT" for a descriptor
\* without that attribute.
Tool(n, d, s) == [name |-> n, description |-> d, inputSchema |-> s]
T(n) == Tool(n, "desc", "schema")

\* filter_set: None, or a set of names
NoFilter == [given |-> FALSE, names |-> {}]
Filter(S) == [given |-> TRUE, names |-> S]

\* Python truthiness of filter_set / prefix
FilterTruthy(filter_set) == filter_set.given /\ filter_set.names # {}
PrefixTruthy(prefix) == prefix # ""

\* line 175: if filter_set and tool.name not in filter_set: continue
Skipped(tool, filter_set) ==
    FilterTruthy(filter_set) /\ tool.name \notin filter_set.names

\* line 179
PrefixedName(prefix, name) == IF PrefixTruthy(prefix) THEN prefix \o name ELSE name

\* lines 181-185
AnthropicTool(tool, prefix) ==
    [name |-> PrefixedName(prefix, tool.name),
     description |-> IF tool.description # "" THEN tool.description
                     ELSE "No description provided",
     input_schema |-> IF tool.inputSchema # "ABSENT" THEN tool.inputSchema ELSE "{}"]

RECURSIVE convert_mcp_tools_to_anthropic_format(_, _, _)
convert_mcp_tools_to_anthropic_format(mcp_tools, prefix, filter_set) ==
    IF mcp_tools = <<>> THEN <<>>
    ELSE LET tool == Head(mcp_tools)
             rest == convert_mcp_tools_to_anthropic_format(Tail(mcp_tools), prefix, filter_set)
         IN IF Skipped(tool, filter_set) THEN rest
            ELSE <<AnthropicTool(tool, prefix)>> \o rest

----------------------------------------------------------------------------
(* Multi-Server Session Manager                                            *)

\* Steps of one server's connection block, in order; a failure at a step
\* leaves the later ones undone.
ConnectSteps == <<"connect", "session", "initialize", "list_tools">>
StepNo(step) == CHOOSE i \in 1..Len(ConnectSteps) : ConnectSteps[i] = step
FailPoints == {"none", "connect", "session", "initialize", "list_tools"}
Reached(fail, step) == fail = "none" \/ StepNo(fail) > StepNo(step)

\* Exception classes a connection step can raise: the transport class
\* (asyncio.TimeoutError, ConnectionError, OSError) or any other Exception.
ConnectExcClasses == {"transport", "other"}

\* lines 778-781 / 813-816: both except clauses of a connection block
CaughtByManagerMut(cls) == cls \in {"transport"}
CaughtByManager(cls) == cls \in {"transport"} \/ cls \in {"transport", "other"}

\* dict item assignment: d[k] = v
DictSet(d, k, v) == (k :> v) @@ d

\* lines 772-775: for tool in linear_tools
RECURSIVE AddLinearTools(_, _)
AddLinearTools(tools, router) ==
    IF tools = <<>> THEN router
    ELSE AddLinearTools(Tail(tools),
             DictSet(router, Head(tools).name,
                     [session |-> "linear", original_name |-> Head(tools).name]))

\* line 808: tool["name"][len(GITHUB_TOOL_PREFIX):]
StripPrefixMut(name) == DropFirst(name, Len(GITHUB_TOOL_PREFIX) - 1)
StripPrefix(name) == DropFirst(name, Len(GITHUB_TOOL_PREFIX))

\* lines 805-810: for tool in github_tools
RECURSIVE AddGithubTools(_, _)
AddGithubTools(tools, router) ==
    IF tools = <<>> THEN router
    ELSE AddGithubTools(Tail(tools),
             DictSet(router, Head(tools).name,
                     [session |-> "github", original_name |-> StripPrefix(Head(tools).name)]))

EmptyRouter == [n \in {} |-> [session |-> "linear", original_name |-> ""]]

\* The resources a connection block entered before failing at `fail`.
OpenedBy(server, fail) ==
    (IF Reached(fail, "connect") THEN {<<"ctx", server>>} ELSE {})
    \cup (IF Reached(fail, "session") THEN {<<"session", server>>} ELSE {})

\* A manager that tracks no session
TrackedMut(server, fail) == <<>>

\* line 763 / 794: sessions_to_close.append runs after both __aenter__ calls
Tracked(server, fail) ==
    IF Reached(fail, "session") THEN <<server>> ELSE <<>>

\* lines 743-746: streamablehttp_client is None -> yield empty catalog
EnterManager ==
    /\ pc = "mgr_enter"
    /\ pc' = IF http_client THEN "linear" ELSE "yielded"
    /\ UNCHANGED <<input_vars, main_vars, mgr_vars, body_exit, conv_vars, call_vars>>

\* An exception escaping a connection block leaves through the finally clause.
ConnectEscapes(server, fail) ==
    /\ pc' = "release"
    /\ body_exit' = "manager_raised"
    /\ conn_log' = [conn_log EXCEPT ![server] = "raised"]
    /\ opened' = opened \cup OpenedBy(server, fail)
    /\ sessions_to_close' = sessions_to_close \o Tracked(server, fail)
    /\ UNCHANGED <<all_tools, tool_router, linear_tool_count, github_tool_count, released,
                   aexit_raised>>

\* lines 753-781
ConnectLinear ==
    /\ pc = "linear"
    /\ UNCHANGED <<input_vars, main_vars, conv_vars, call_vars>>
    /\ IF ~linear_api_key
       THEN /\ pc' = "github"
            /\ UNCHANGED <<mgr_vars, body_exit>>
       ELSE \E cls \in ConnectExcClasses :
            LET fail == conn_fail["linear"] IN
            IF fail # "none" /\ ~CaughtByManager(cls)
            THEN ConnectEscapes("linear", fail)
            ELSE
            /\ pc' = "github"
            /\ opened' = opened \cup OpenedBy("linear", fail)
            /\ sessions_to_close' = sessions_to_close \o Tracked("linear", fail)
            /\ conn_log' = [conn_log EXCEPT !["linear"] = fail]
            /\ IF fail = "none"
               THEN LET linear_tools ==
                            convert_mcp_tools_to_anthropic_format(listed["linear"], "", NoFilter)
                    IN /\ all_tools' = all_tools \o linear_tools
                       /\ tool_router' = AddLinearTools(linear_tools, tool_router)
                       /\ linear_tool_count' = linear_tool_count + Len(linear_tools)
               ELSE UNCHANGED <<all_tools, tool_router, linear_tool_count>>
            /\ UNCHANGED <<github_tool_count, released, aexit_raised, body_exit>>

\* lines 784-818
ConnectGithub ==
    /\ pc = "github"
    /\ UNCHANGED <<input_vars, main_vars, conv_vars, call_vars>>
    /\ IF ~github_mcp_token
       THEN /\ pc' = "yielded"
            /\ UNCHANGED <<mgr_vars, body_exit>>
       ELSE \E cls \in ConnectExcClasses :
            LET fail == conn_fail["github"] IN
            IF fail # "none" /\ ~CaughtByManager(cls)
            THEN ConnectEscapes("github", fail)
            ELSE
            /\ pc' = "yielded"
            /\ opened' = opened \cup OpenedBy("github", fail)
            /\ sessions_to_close' = sessions_to_close \o Tracked("github", fail)
            /\ conn_log' = [conn_log EXCEPT !["github"] = fail]
            /\ IF fail = "none"
               THEN LET github_tools ==
                            convert_mcp_tools_to_anthropic_format(
                                listed["github"], GITHUB_TOOL_PREFIX,
                                Filter(GITHUB_ESSENTIAL_TOOLS))
                    IN /\ all_tools' = all_tools \o github_tools
                       /\ tool_router' = AddGithubTools(github_tools, tool_router)
                       /\ github_tool_count' = github_tool_count + Len(github_tools)
               ELSE UNCHANGED <<all_tools, tool_router, github_tool_count>>
            /\ UNCHANGED <<linear_tool_count, released, aexit_raised, body_exit>>

RECURSIVE Reversed(_)
Reversed(s) == IF s = <<>> THEN <<>> ELSE Append(Reversed(Tail(s)), Head(s))

\* lines 822-830: the __aexit__ calls of the finally clause, in order: for
\* each tracked pair the session's, then its transport context's
RECURSIVE ReleaseCalls(_)
ReleaseCalls(pairs) ==
    IF pairs = <<>> THEN <<>>
    ELSE <<<<"session", Head(pairs)>>, <<"ctx", Head(pairs)>>>>
         \o ReleaseCalls(Tail(pairs))

\* Exception classes an __aexit__ may raise
ReleaseExcClasses == {"RuntimeError", "OSError"}

\* lines 825 / 829: except Exception: pass
ReleaseHandlerMut == {"OSError"}
ReleaseHandler == {"Exception"}

\* The __aexit__ call, if any, whose exception leaves the finally clause:
\* the first one that raises an exception its except clause does not catch.
EscapingCall(rcalls, raising, cls) ==
    IF \E i \in 1..Len(rcalls) : rcalls[i] \in raising /\ ~Catches(ReleaseHandler, cls)
    THEN CHOOSE i \in 1..Len(rcalls) :
             /\ rcalls[i] \in raising
             /\ \A j \in 1..(i - 1) : rcalls[j] \notin raising
    ELSE 0

\* The __aexit__ calls made: all of them, or those up to the escaping one
ReleaseAll(pairs, raising, cls) ==
    LET rcalls == ReleaseCalls(pairs)
        esc == EscapingCall(rcalls, raising, cls)
    IN IF esc = 0 THEN rcalls ELSE SubSeq(rcalls, 1, esc)

\* Which __aexit__ calls raise: none, the first one, or all of them
ReleaseFaults(pairs) ==
    LET rcalls == ReleaseCalls(pairs)
        all == {rcalls[i] : i \in 1..Len(rcalls)}
    IN {{}, all} \cup {{rcalls[i]} : i \in 1..Len(rcalls) \cap {1}}

\* lines 820-830: the finally clause, run when the body of the async-with
\* returns or raises; then the manager's __aexit__ returns or re-raises what
\* the body raised, unless an exception left the finally clause itself.
ManagerFinally ==
    /\ pc = "release"
    /\ \E raising \in ReleaseFaults(Reversed(sessions_to_close)),
          cls \in ReleaseExcClasses :
         LET pairs == Reversed(sessions_to_close)
             esc == EscapingCall(ReleaseCalls(pairs), raising, cls)
         IN /\ raising = {} => cls = "RuntimeError"
            /\ released' = ReleaseAll(pairs, raising, cls)
            /\ aexit_raised' = raising
            /\ body_exit' = IF esc = 0 THEN body_exit ELSE BodyExitFor(cls)
    /\ pc' = "exited"
    /\ UNCHANGED <<input_vars, main_vars, all_tools, tool_router, linear_tool_count,
                   github_tool_count, sessions_to_close, conn_log, opened,
                   conv_vars, call_vars>>

\* The body of `async with multi_mcp_sessions(...)`, taken on its own: it
\* returns or raises, and control passes to the manager's finally clause.
ConsumerExit ==
    /\ pc = "yielded"
    /\ \E how \in {"return", "recoverable", "other"} : body_exit' = how
    /\ pc' = "release"
    /\ UNCHANGED <<input_vars, main_vars, mgr_vars, conv_vars, call_vars>>

----------------------------------------------------------------------------
(* Review text: a sequence of tokens.  "OPEN"/"CLOSE" are an opening and a  *)
(* closing tag, "SELF" a self-closing tag, "NL" a newline, "SP" a blank;    *)
(* any other token is ordinary text.                                        *)

IsWs(t) == t \in {"NL", "SP"}

\* index of the first element of s satisfying nothing but equality with t, or 0
FirstIndexOf(s, t) ==
    IF \E i \in 1..Len(s) : s[i] = t
    THEN CHOOSE i \in 1..Len(s) : s[i] = t /\ \A j \in 1..(i - 1) : s[j] # t
    ELSE 0

\* re.sub(r'<\w+[^>]*>.*?</\w+>', '', text, flags=re.DOTALL)
RECURSIVE RemovePaired(_)
RemovePaired(s) ==
    IF s = <<>> THEN <<>>
    ELSE IF Head(s) \in {"OPEN", "SELF"} /\ FirstIndexOf(Tail(s), "CLOSE") > 0
         THEN RemovePaired(DropFirst(Tail(s), FirstIndexOf(Tail(s), "CLOSE")))
         ELSE <<Head(s)>> \o RemovePaired(Tail(s))

RECURSIVE DropLeadingWs(_)
DropLeadingWs(s) ==
    IF s # <<>> /\ IsWs(Head(s)) THEN DropLeadingWs(Tail(s)) ELSE s

\* re.sub(r'<\w+[^>]*/>\s*', '', cleaned)
RECURSIVE RemoveSelfClosing(_)
RemoveSelfClosing(s) ==
    IF s = <<>> THEN <<>>
    ELSE IF Head(s) = "SELF" THEN RemoveSelfClosing(DropLeadingWs(Tail(s)))
         ELSE <<Head(s)>> \o RemoveSelfClosing(Tail(s))

\* length of the whitespace run s starts with
WsRun(s) == Len(s) - Len(DropLeadingWs(s))

\* re.sub(r'\n\s*\n\s*\n+', '\n\n', cleaned)
RECURSIVE CollapseBlankLines(_)
CollapseBlankLines(s) ==
    IF s = <<>> THEN <<>>
    ELSE LET run == WsRun(s)
             nls == {i \in 1..run : s[i] = "NL"}
         IN IF Head(s) = "NL" /\ Cardinality(nls) >= 3
            THEN LET last == CHOOSE i \in nls : \A j \in nls : j <= i
                 IN <<"NL", "NL">> \o CollapseBlankLines(DropFirst(s, last))
            ELSE <<Head(s)>> \o CollapseBlankLines(Tail(s))

RECURSIVE DropTrailingWs(_)
DropTrailingWs(s) ==
    IF s # <<>> /\ IsWs(s[Len(s)]) THEN DropTrailingWs(SubSeq(s, 1, Len(s) - 1)) ELSE s

\* str.strip()
StripWs(s) == DropTrailingWs(DropLeadingWs(s))

strip_tool_simulation_markup(text) ==
    StripWs(CollapseBlankLines(RemoveSelfClosing(RemovePaired(text))))

----------------------------------------------------------------------------
(* Conversation loop and fallbacks: call_claude_with_mcp                    *)

max_iterations == 10

\* line 1063
EXHAUSTED_TEXT == <<"Review incomplete: maximum conversation turns exceeded">>
\* line 1051
UNEXPECTED_STOP_TEXT == <<"Review completed with unexpected stop reason">>

None == [none |-> TRUE]

\* Content blocks of a model response
TextBlock(t) == [type |-> "text", text |-> t, id |-> 0, name |-> ""]
ToolUseBlock(i, n) == [type |-> "tool_use", text |-> <<>>, id |-> i, name |-> n]

\* lines 874-884
initial_content ==
    <<[type |-> "text", text |-> "static_content", cache_control |-> "ephemeral"],
      [type |-> "text", text |-> "dynamic_content", cache_control |-> "none"]>>

NoResponse == [stop_reason |-> "none", content |-> <<>>]

\* lines 894 / 919 / 929 / 1075: [{"role": "user", "content": initial_content}]
InitialMessages == <<[role |-> "user", content |-> initial_content]>>

\* arguments of client.messages.create: without tools, or with the catalog
NoRequest == [messages |-> <<>>, tools |-> <<>>, with_tools |-> FALSE]
ToollessRequest(msgs) == [messages |-> msgs, tools |-> <<>>, with_tools |-> FALSE]
ToolRequest(msgs, tools) == [messages |-> msgs, tools |-> tools, with_tools |-> TRUE]

\* Only the first text block of a response
ConcatTextMut(content) ==
    LET texts == SelectSeq(content, LAMBDA b : b.type = "text")
    IN IF texts = <<>> THEN <<>> ELSE texts[1].text

\* lines 969-972 / 1047-1050: concatenate the text of the blocks that have one
RECURSIVE ConcatText(_)
ConcatText(content) ==
    IF content = <<>> THEN <<>>
    ELSE (IF Head(content).type = "text" THEN Head(content).text ELSE <<>>)
         \o ConcatText(Tail(content))

\* line 1030: except (asyncio.TimeoutError, OSError, RuntimeError)
ToolHandlerMut == {"TimeoutError", "OSError"}
ToolHandler == {"TimeoutError", "OSError", "RuntimeError"}

NoOutcome ==
    [kind |-> "none", text |-> <<>>, had_linear |-> FALSE, had_github |-> FALSE,
     tool_call_count |-> 0, linear_issue_data |-> None]

Returned(text, hl, hg, n, data) ==
    [kind |-> "returned", text |-> text, had_linear |-> hl, had_github |-> hg,
     tool_call_count |-> n, linear_issue_data |-> data]

Raised == [NoOutcome EXCEPT !.kind = "raised"]

\* line 1022: except (json.JSONDecodeError, KeyError, IndexError, AttributeError)
IssueHandler == {"JSONDecodeError", "KeyError", "IndexError", "AttributeError"}

\* lines 1015-1020: the four fields taken from the parsed object
IssueFields(id, title, state, description) ==
    [id |-> id, title |-> title, state |-> state, description |-> description]

\* lines 1013-1020: what the parse of a get_issue result computes, or the
\* exception it raises.  The text of a result is one of:
\*   ISSUE_JSON            an object with identifier, title, state.name, description
\*   NOT_JSON              text json.loads rejects
\*   JSON_LIST             a JSON value without .get
\*   JSON_DESCRIPTION_INT  an object whose description is a number: the slice
\*                         [:200] of line 1019 raises TypeError
\* and an empty result.content is parsed as "{}".
ParseIssue(content) ==
    IF content = <<>>
    THEN [exc |-> "none", data |-> IssueFields("", "", "", "")]
    ELSE IF content[1].type # "text"
    THEN [exc |-> "AttributeError", data |-> None]
    ELSE CASE content[1].text = <<"ISSUE_JSON">> ->
                  [exc |-> "none",
                   data |-> IssueFields("ENG-1", "title", "Todo", "description")]
           [] content[1].text = <<"JSON_LIST">> ->
                  [exc |-> "AttributeError", data |-> None]
           [] content[1].text = <<"JSON_DESCRIPTION_INT">> ->
                  [exc |-> "TypeError", data |-> None]
           [] OTHER -> [exc |-> "JSONDecodeError", data |-> None]

\* lines 1010-1023: side-data extracted from a get_issue result
IssueData(content) == ParseIssue(content).data

UnknownToolResultMut(block) ==
    [type |-> "tool_result", tool_use_id |-> block.id, content |-> <<>>, is_error |-> FALSE]

\* lines 994-999
UnknownToolResult(block) ==
    [type |-> "tool_result", tool_use_id |-> block.id,
     content |-> <<"Unknown tool: ", block.name>>, is_error |-> TRUE]

ToolResultMut(block, content) ==
    [type |-> "tool_result", tool_use_id |-> block.id,
     content |-> [i \in DOMAIN content |->
                     [content[i] EXCEPT !.text = strip_tool_simulation_markup(@)]],
     is_error |-> FALSE]

\* lines 1025-1029
ToolResult(block, content) ==
    [type |-> "tool_result", tool_use_id |-> block.id,
     content |-> content, is_error |-> FALSE]

\* lines 1033-1038
ToolErrorResult(block) ==
    [type |-> "tool_result", tool_use_id |-> block.id,
     content |-> <<"Error executing tool: ", "str(e)">>, is_error |-> TRUE]

----------------------------------------------------------------------------
(* What the model API and the tool servers may answer                       *)

\* Tool invocations the model may request in one conversation, at most
MaxToolCalls == 2

\* Tool names the model may ask for: routed ones and a hallucinated one
RequestNames == {"get_issue", "github_get_commit", "nope"}

MarkupText == <<"a", "NL", "SELF", "NL", "NL", "b">>

\* result.content of a successful call_tool of the tool `original_name`
ResultContents(original_name) ==
    IF original_name = "get_issue"
    THEN { <<[type |-> "text", text |-> <<"ISSUE_JSON">>]>>,
           <<>>,
           <<[type |-> "image", text |-> <<>>]>>,
           <<[type |-> "text", text |-> <<"NOT_JSON">>]>>,
           <<[type |-> "text", text |-> <<"JSON_LIST">>]>>,
           <<[type |-> "text", text |-> <<"JSON_DESCRIPTION_INT">>]>> }
    ELSE { <<[type |-> "text", text |-> MarkupText]>> }

\* Exception classes call_tool may raise
ToolExcClasses == {"TimeoutError", "ConnectionError", "OSError", "RuntimeError", "McpError"}

\* What awaiting session.call_tool gives: a result, or an exception
ToolAnswers(original_name) ==
    {[exc |-> "none", content |-> c] : c \in ResultContents(original_name)}
    \cup {[exc |-> cls, content |-> <<>>] : cls \in ToolExcClasses}

\* Exception classes client.messages.create may raise
ModelExcClasses == {"TimeoutError", "ConnectionError", "APIError"}

\* Stop reasons other than end_turn and tool_use
OtherStopReasons == {"max_tokens"}

\* Content of a response that ends the conversation
FinalContents ==
    { <<>>,
      <<TextBlock(MarkupText)>>,
      <<ToolUseBlock(0, "nope"), TextBlock(<<"a">>)>>,
      <<TextBlock(<<"a", "NL">>), ToolUseBlock(0, "nope"), TextBlock(<<"b">>)>> }

\* Content of a response cut short by an unexpected stop reason
SalvageContents == { <<>>, <<TextBlock(MarkupText), ToolUseBlock(0, "get_issue")>> }

\* All sequences of k tool_use blocks with ids first_id, first_id + 1, ...
RECURSIVE ToolUseSeqs(_, _)
ToolUseSeqs(k, first_id) ==
    IF k = 0 THEN {<<>>}
    ELSE {<<ToolUseBlock(first_id, n)>> \o rest :
              n \in RequestNames, rest \in ToolUseSeqs(k - 1, first_id + 1)}

\* Content of a response with stop_reason tool_use: up to `budget` tool_use
\* blocks, where a batch of several may follow a text block; or, as long as
\* the model has requested no tool yet, no block at all.
ToolUseContents(first_id, budget) ==
    (IF first_id = 1 THEN {<<>>} ELSE {})
    \cup UNION {ToolUseSeqs(k, first_id) : k \in 1..budget}
    \cup UNION {{<<TextBlock(<<"a">>)>> \o s : s \in ToolUseSeqs(k, first_id)} : k \in 2..budget}

----------------------------------------------------------------------------
(* call_claude_with_mcp                                                     *)

\* A site that invokes the model twice
CountMut(site) == [calls EXCEPT ![site] = @ + 2]

\* one client.messages.create at the site
Count(site) == [calls EXCEPT ![site] = @ + 1]

\* message.content[0].text of a toolless call: IndexError / AttributeError
\* when there is no first block or it has no text
FirstTextOk(content) == content # <<>> /\ content[1].type = "text"

\* lines 903-904
NoCredentialsOutcomeMut(content) ==
    Returned(strip_tool_simulation_markup(content[1].text), FALSE, TRUE, 0, None)
NoCredentialsOutcome(content) ==
    Returned(strip_tool_simulation_markup(content[1].text), FALSE, FALSE, 0, None)

\* lines 887-904
NoCredentialsCall ==
    /\ pc = "start"
    /\ ~linear_api_key /\ ~github_mcp_token
    /\ calls' = Count("no_credentials")
    /\ request' = ToollessRequest(InitialMessages)
    /\ \E content \in FinalContents, api_raises \in BOOLEAN :
         /\ response' = [stop_reason |-> "end_turn", content |-> content]
         /\ outcome' = IF ~api_raises /\ FirstTextOk(content)
                       THEN NoCredentialsOutcome(content)
                       ELSE Raised
    /\ exit_kind' = "no_credentials"
    /\ pc' = "done"
    /\ UNCHANGED <<input_vars, main_vars, mgr_vars, body_exit, conv_vars, messages, iteration,
                   tool_call_count, linear_issue_data, tool_results, block_idx,
                   dispatch_log, last_exc, had_linear, had_github>>

\* lines 906-908
EnterWithCredentials ==
    /\ pc = "start"
    /\ linear_api_key \/ github_mcp_token
    /\ pc' = "mgr_enter"
    /\ UNCHANGED <<input_vars, main_vars, mgr_vars, body_exit, conv_vars, call_vars>>

\* lines 910-911
HadLinear == \E name \in DOMAIN tool_router : ~StartsWith(name, GITHUB_TOOL_PREFIX)
HadGithub == \E name \in DOMAIN tool_router : StartsWith(name, GITHUB_TOOL_PREFIX)

\* line 913: if not tools
NoToolsMut == all_tools # all_tools
NoTools == all_tools = <<>>

\* lines 921-922
NoToolsOutcome(content) ==
    Returned(strip_tool_simulation_markup(content[1].text), FALSE, FALSE, 0, None)

\* lines 910-922
NoToolsCall ==
    /\ pc = "yielded"
    /\ NoTools
    /\ had_linear' = HadLinear
    /\ had_github' = HadGithub
    /\ calls' = Count("no_tools")
    /\ request' = ToollessRequest(InitialMessages)
    /\ exit_kind' = "no_tools"
    /\ pc' = "release"
    /\ \E content \in FinalContents, cls \in ModelExcClasses \cup {"none"} :
         /\ response' = [stop_reason |-> "end_turn", content |-> content]
         /\ IF cls # "none"
            THEN /\ body_exit' = BodyExitFor(cls)
                 /\ last_exc' = cls
                 /\ UNCHANGED outcome
            ELSE IF ~FirstTextOk(content)
            THEN /\ body_exit' = BodyExitFor("IndexError")
                 /\ last_exc' = "IndexError"
                 /\ UNCHANGED outcome
            ELSE /\ body_exit' = "return"
                 /\ last_exc' = "none"
                 /\ outcome' = NoToolsOutcome(content)
    /\ UNCHANGED <<input_vars, main_vars, mgr_vars, conv_vars, messages, iteration,
                   tool_call_count, linear_issue_data, tool_results, block_idx,
                   dispatch_log>>

\* lines 910-938
StartConversation ==
    /\ pc = "yielded"
    /\ ~NoTools
    /\ had_linear' = HadLinear
    /\ had_github' = HadGithub
    /\ messages' = InitialMessages
    /\ tool_call_count' = 0
    /\ linear_issue_data' = None
    /\ iteration' = 0
    /\ pc' = "loop"
    /\ UNCHANGED <<input_vars, main_vars, mgr_vars, body_exit, conv_vars, response, tool_results,
                   block_idx, dispatch_log, last_exc, request, outcome, exit_kind, calls>>

\* line 940: while iteration < max_iterations
LoopContinuesMut == iteration <= max_iterations
LoopContinues == iteration < max_iterations

\* lines 940-949 and 967-976: the model signals ordinary completion
ModelEndTurn ==
    /\ pc = "loop"
    /\ LoopContinues
    /\ iteration' = iteration + 1
    /\ calls' = Count("loop")
    /\ request' = ToolRequest(messages, all_tools)
    /\ \E content \in FinalContents :
         /\ response' = [stop_reason |-> "end_turn", content |-> content]
         /\ outcome' = Returned(strip_tool_simulation_markup(ConcatText(content)),
                                had_linear, had_github, tool_call_count, linear_issue_data)
    /\ exit_kind' = "end_turn"
    /\ body_exit' = "return"
    /\ pc' = "release"
    /\ UNCHANGED <<input_vars, main_vars, mgr_vars, conv_vars, messages, tool_call_count,
                   linear_issue_data, tool_results, block_idx, dispatch_log, last_exc,
                   had_linear, had_github>>

\* lines 940-949 and 979-984: the model requests tools
ModelToolUse ==
    /\ pc = "loop"
    /\ LoopContinues
    /\ iteration' = iteration + 1
    /\ calls' = Count("loop")
    /\ request' = ToolRequest(messages, all_tools)
    /\ \E content \in ToolUseContents(tool_call_count + 1, tool_budget - tool_call_count) :
         /\ response' = [stop_reason |-> "tool_use", content |-> content]
         /\ messages' = Append(messages, [role |-> "assistant", content |-> content])
    /\ tool_results' = <<>>
    /\ block_idx' = 1
    /\ pc' = "tools"
    /\ UNCHANGED <<input_vars, main_vars, mgr_vars, body_exit, conv_vars, tool_call_count,
                   linear_issue_data, dispatch_log, last_exc, had_linear, had_github,
                   outcome, exit_kind>>

\* lines 1047-1051: text salvaged from a response with an unexpected stop reason
SalvagedTextMut(content) == strip_tool_simulation_markup(UNEXPECTED_STOP_TEXT)
SalvagedText(content) ==
    strip_tool_simulation_markup(
        IF ConcatText(content) # <<>> THEN ConcatText(content) ELSE UNEXPECTED_STOP_TEXT)

\* lines 940-949 and 1044-1059: neither end_turn nor tool_use
ModelUnexpectedStop ==
    /\ pc = "loop"
    /\ LoopContinues
    /\ iteration' = iteration + 1
    /\ calls' = Count("loop")
    /\ request' = ToolRequest(messages, all_tools)
    /\ \E content \in SalvageContents, reason \in OtherStopReasons :
         /\ response' = [stop_reason |-> reason, content |-> content]
         /\ outcome' = Returned(SalvagedText(content),
                                had_linear, had_github, tool_call_count, linear_issue_data)
    /\ exit_kind' = "unexpected_stop"
    /\ body_exit' = "return"
    /\ pc' = "release"
    /\ UNCHANGED <<input_vars, main_vars, mgr_vars, conv_vars, messages, tool_call_count,
                   linear_issue_data, tool_results, block_idx, dispatch_log, last_exc,
                   had_linear, had_github>>

\* lines 940-949: client.messages.create raises
ModelRaises ==
    /\ pc = "loop"
    /\ LoopContinues
    /\ iteration' = iteration + 1
    /\ calls' = Count("loop")
    /\ request' = ToolRequest(messages, all_tools)
    /\ \E cls \in ModelExcClasses :
         /\ body_exit' = BodyExitFor(cls)
         /\ last_exc' = cls
    /\ exit_kind' = "error"
    /\ pc' = "release"
    /\ UNCHANGED <<input_vars, main_vars, mgr_vars, conv_vars, messages, tool_call_count,
                   linear_issue_data, response, tool_results, block_idx, dispatch_log,
                   had_linear, had_github, outcome>>

\* lines 1061-1063
ExhaustedOutcomeMut ==
    Returned(SalvagedText(response.content),
             had_linear, had_github, tool_call_count, linear_issue_data)
ExhaustedOutcome ==
    Returned(EXHAUSTED_TEXT, had_linear, had_github, tool_call_count, linear_issue_data)

\* lines 940 and 1061-1063: the while condition fails
MaxIterationsReached ==
    /\ pc = "loop"
    /\ ~LoopContinues
    /\ outcome' = ExhaustedOutcome
    /\ exit_kind' = "exhausted"
    /\ body_exit' = "return"
    /\ pc' = "release"
    /\ UNCHANGED <<input_vars, main_vars, mgr_vars, conv_vars, loop_vars, had_linear, had_github,
                   calls>>

CurrentBlock == response.content[block_idx]

\* A for loop that stops after the first block
BatchResolvedMut == block_idx > 1

\* line 985: the for loop has gone through every block of the response
BatchResolved == block_idx > Len(response.content)

\* lines 985-986: a block that is not a tool_use block is passed over
SkipBlock ==
    /\ pc = "tools"
    /\ block_idx <= Len(response.content)
    /\ CurrentBlock.type # "tool_use"
    /\ block_idx' = block_idx + 1
    /\ last_exc' = "none"
    /\ UNCHANGED <<pc, input_vars, main_vars, mgr_vars, body_exit, conv_vars, messages, iteration,
                   tool_call_count, linear_issue_data, response, tool_results,
                   dispatch_log, request, had_linear, had_github, outcome, exit_kind,
                   calls>>

\* line 992
IsRouted(tool_name) == tool_name \in DOMAIN tool_router

DispatchUnknownToolMut ==
    /\ pc = "tools"
    /\ block_idx <= Len(response.content)
    /\ CurrentBlock.type = "tool_use"
    /\ ~IsRouted(CurrentBlock.name)
    /\ tool_call_count' = tool_call_count + 1
    /\ block_idx' = block_idx + 1
    /\ last_exc' = "none"
    /\ UNCHANGED <<pc, input_vars, main_vars, mgr_vars, body_exit, conv_vars, messages, iteration,
                   linear_issue_data, response, tool_results, dispatch_log, request,
                   had_linear, had_github, outcome, exit_kind, calls>>

\* lines 986-1000: the requested tool is not in the router
DispatchUnknownTool ==
    /\ pc = "tools"
    /\ block_idx <= Len(response.content)
    /\ CurrentBlock.type = "tool_use"
    /\ ~IsRouted(CurrentBlock.name)
    /\ tool_call_count' = tool_call_count + 1
    /\ tool_results' = Append(tool_results, UnknownToolResult(CurrentBlock))
    /\ block_idx' = block_idx + 1
    /\ last_exc' = "none"
    /\ UNCHANGED <<pc, input_vars, main_vars, mgr_vars, body_exit, conv_vars, messages, iteration,
                   linear_issue_data, response, dispatch_log, request, had_linear,
                   had_github, outcome, exit_kind, calls>>

\* lines 986-1038: the requested tool is routed and called
CallTool ==
    /\ pc = "tools"
    /\ block_idx <= Len(response.content)
    /\ CurrentBlock.type = "tool_use"
    /\ IsRouted(CurrentBlock.name)
    /\ tool_call_count' = tool_call_count + 1
    /\ LET route == tool_router[CurrentBlock.name]
           capture == route.original_name = "get_issue" /\ linear_issue_data = None
       IN \E answer \in ToolAnswers(route.original_name) :
          LET parsed == IF answer.exc = "none" /\ capture
                        THEN ParseIssue(answer.content)
                        ELSE [exc |-> "none", data |-> linear_issue_data]
              exc == IF answer.exc # "none" THEN answer.exc
                     ELSE IF Catches(IssueHandler, parsed.exc) THEN "none"
                     ELSE parsed.exc
          IN /\ dispatch_log' = Append(dispatch_log,
                                    [id |-> CurrentBlock.id, exposed |-> CurrentBlock.name,
                                     session |-> route.session,
                                     name |-> route.original_name,
                                     raised |-> answer.exc # "none",
                                     result |-> answer.content])
             /\ linear_issue_data' = IF parsed.exc = "none" THEN parsed.data
                                     ELSE linear_issue_data
             /\ last_exc' = exc
             /\ IF exc = "none"
                THEN /\ tool_results' =
                            Append(tool_results, ToolResult(CurrentBlock, answer.content))
                     /\ block_idx' = block_idx + 1
                     /\ UNCHANGED <<pc, body_exit, exit_kind>>
                ELSE IF Catches(ToolHandler, exc)
                THEN /\ tool_results' = Append(tool_results, ToolErrorResult(CurrentBlock))
                     /\ block_idx' = block_idx + 1
                     /\ UNCHANGED <<pc, body_exit, exit_kind>>
                ELSE /\ body_exit' = BodyExitFor(exc)
                     /\ exit_kind' = "error"
                     /\ pc' = "release"
                     /\ UNCHANGED <<tool_results, block_idx>>
    /\ UNCHANGED <<input_vars, main_vars, mgr_vars, conv_vars, messages, iteration, response,
                   request, had_linear, had_github, outcome, calls>>

\* A batch whose results are dropped instead of being appended
AppendToolResultsMut ==
    /\ pc = "tools"
    /\ block_idx > Len(response.content)
    /\ messages' = messages
    /\ last_exc' = "none"
    /\ pc' = "loop"
    /\ UNCHANGED <<input_vars, main_vars, mgr_vars, body_exit, conv_vars, iteration, tool_call_count,
                   linear_issue_data, response, tool_results, block_idx, dispatch_log,
                   request, had_linear, had_github, outcome, exit_kind, calls>>

\* lines 1040-1042: the batch is resolved
AppendToolResults ==
    /\ pc = "tools"
    /\ BatchResolved
    /\ messages' = Append(messages, [role |-> "user", content |-> tool_results])
    /\ last_exc' = "none"
    /\ pc' = "loop"
    /\ UNCHANGED <<input_vars, main_vars, mgr_vars, body_exit, conv_vars, iteration, tool_call_count,
                   linear_issue_data, response, tool_results, block_idx, dispatch_log,
                   request, had_linear, had_github, outcome, exit_kind, calls>>

\* the return statement of the body takes effect once the manager has exited
ReturnOutcome ==
    /\ pc = "exited"
    /\ body_exit = "return"
    /\ pc' = "done"
    /\ UNCHANGED <<input_vars, main_vars, mgr_vars, body_exit, conv_vars, call_vars>>

\* line 1075: messages=[{"role": "user", "content": initial_content}]
FallbackMessagesMut == messages
FallbackMessages == InitialMessages

\* lines 1084-1085
FallbackOutcome(content) ==
    Returned(strip_tool_simulation_markup(content[1].text), FALSE, FALSE, 0, None)

\* lines 1065-1085
FallbackCall ==
    /\ pc = "exited"
    /\ body_exit = "recoverable"
    /\ calls' = Count("fallback")
    /\ request' = ToollessRequest(FallbackMessages)
    /\ \E content \in FinalContents, api_raises \in BOOLEAN :
         /\ response' = [stop_reason |-> "end_turn", content |-> content]
         /\ outcome' = IF ~api_raises /\ FirstTextOk(content)
                       THEN FallbackOutcome(content)
                       ELSE Raised
    /\ exit_kind' = "fallback"
    /\ pc' = "done"
    /\ UNCHANGED <<input_vars, main_vars, mgr_vars, body_exit, conv_vars, messages, iteration,
                   tool_call_count, linear_issue_data, tool_results, block_idx,
                   dispatch_log, last_exc, had_linear, had_github>>

\* an exception no handler of call_claude_with_mcp names leaves the function
PropagateError ==
    /\ pc = "exited"
    /\ body_exit \in {"other", "manager_raised"}
    /\ outcome' = Raised
    /\ pc' = "done"
    /\ UNCHANGED <<input_vars, main_vars, mgr_vars, body_exit, conv_vars, loop_vars, had_linear,
                   had_github, exit_kind, calls>>

----------------------------------------------------------------------------
(* async_main, from the call of call_claude_with_mcp on                    *)

\* lines 1346-1349: what post_review_comment is given
Comment(o) ==
    [review_text |-> o.text, had_linear_context |-> o.had_linear,
     had_github_context |-> o.had_github, tool_call_count |-> o.tool_call_count,
     linear_issue_data |-> o.linear_issue_data]

\* Python truthiness of linear_issue_data: None is falsy, the dict of four
\* fields is truthy whatever the fields hold
IssueDataTruthy(data) == data # None

\* lines 1210-1219: the footer parts that depend on the outcome
ContextFooter(c) ==
    (IF IssueDataTruthy(c.linear_issue_data)
     THEN <<<<"Reviewed", c.linear_issue_data.id>>>>
     ELSE IF c.tool_call_count > 0 THEN <<<<"Validated using", c.tool_call_count>>>>
     ELSE <<>>)
    \o (IF c.had_github_context THEN <<<<"Cross-repo context enabled">>>> ELSE <<>>)

\* lines 1184-1229: the comment body post_review_comment builds; linear_warning
\* is the "Linear Context" annotation with its possible reasons (lines 1192-1204)
CommentBody(c) ==
    [review_text |-> c.review_text,
     linear_warning |-> ~c.had_linear_context,
     footer |-> ContextFooter(c)]

PostReviewCommentMut ==
    /\ pc = "done"
    /\ outcome.kind = "returned"
    /\ exit_status' = 0
    /\ \E post_raises \in BOOLEAN :
         posted' = IF post_raises THEN posted
                   ELSE Append(posted, CommentBody(Comment(outcome)))
    /\ pc' = "main_done"
    /\ UNCHANGED <<input_vars, mgr_vars, body_exit, conv_vars, call_vars>>

\* lines 1342-1352: call_claude_with_mcp returned; the comment is posted, or
\* posting raises and the handler of lines 1354-1359 returns 1
PostReviewComment ==
    /\ pc = "done"
    /\ outcome.kind = "returned"
    /\ \E post_raises \in BOOLEAN :
         IF post_raises
         THEN /\ exit_status' = 1
              /\ UNCHANGED posted
         ELSE /\ exit_status' = 0
              /\ posted' = Append(posted, CommentBody(Comment(outcome)))
    /\ pc' = "main_done"
    /\ UNCHANGED <<input_vars, mgr_vars, body_exit, conv_vars, call_vars>>

\* lines 1354-1359: call_claude_with_mcp raised
ReviewFailed ==
    /\ pc = "done"
    /\ outcome.kind = "raised"
    /\ exit_status' = 1
    /\ pc' = "main_done"
    /\ UNCHANGED <<input_vars, posted, mgr_vars, body_exit, conv_vars, call_vars>>

----------------------------------------------------------------------------
(* extract_reviewer_instructions.  A comment body is described by whether   *)
(* it is empty, whether the pattern of line 104 matches, and what follows   *)
(* the mention once stripped: whether its lower case is a generic trigger,  *)
(* and its number of characters.  A returned string is described by its     *)
(* number of characters and by whether it ends in the truncation mark.      *)

MAX_INSTRUCTION_LENGTH == 2000

\* lines 112-122
generic_triggers ==
    {"", "review", "please review", "review this", "please review this",
     "review this pr", "please review this pr", "check this", "please check this"}

\* line 129: the mark appended to a truncated instruction
TRUNCATION_MARK == "... (truncated)"

Body(kind, generic, length) == [kind |-> kind, generic |-> generic, length |-> length]
EmptyBody == Body("empty", FALSE, 0)

Instructions(length, truncated) == [length |-> length, truncated |-> truncated]
NoInstructions == Instructions(0, FALSE)

\* lines 78-131
extract_reviewer_instructions(comment_body) ==
    IF comment_body.kind = "empty" THEN NoInstructions
    ELSE IF comment_body.kind = "no_match" THEN NoInstructions
    ELSE IF comment_body.generic THEN NoInstructions
    ELSE IF comment_body.length > MAX_INSTRUCTION_LENGTH
    THEN Instructions(MAX_INSTRUCTION_LENGTH + Len(TRUNCATION_MARK), TRUE)
    ELSE Instructions(comment_body.length, FALSE)

----------------------------------------------------------------------------
(* Inputs                                                                  *)

LinearListings ==
    { <<>>,
      <<T("get_issue")>>,
      <<T("get_issue"), T("list_issues")>>,
      <<T("get_issue"), T("get_issue")>>,
      <<Tool("github_get_commit", "", "ABSENT")>> }

GithubListings ==
    { <<>>,
      <<T("get_commit")>>,
      <<T("create_issue")>>,
      <<T("get_commit"), T("create_issue"), T("search_code")>>,
      <<Tool("get_issue", "", "ABSENT"), T("get_commit")>> }

InitManagerState ==
    /\ all_tools = <<>>
    /\ tool_router = EmptyRouter
    /\ linear_tool_count = 0
    /\ github_tool_count = 0
    /\ sessions_to_close = <<>>
    /\ conn_log = [s \in Servers |-> "not_attempted"]
    /\ opened = {}
    /\ released = <<>>
    /\ aexit_raised = {}
    /\ body_exit = "none"

NoConv == [mcp_tools |-> <<>>, prefix |-> "", filter_set |-> NoFilter]

\* The two functions that are also run on their own are not being run
NoPureRun ==
    /\ conv_in = NoConv
    /\ conv_out = <<>>
    /\ conv_prev = <<>>
    /\ instr_in = EmptyBody
    /\ instr_out = NoInstructions

InitCallState ==
    /\ messages = <<>>
    /\ iteration = 0
    /\ tool_call_count = 0
    /\ linear_issue_data = None
    /\ response = NoResponse
    /\ tool_results = <<>>
    /\ block_idx = 1
    /\ had_linear = FALSE
    /\ had_github = FALSE
    /\ outcome = NoOutcome
    /\ exit_kind = "none"
    /\ calls = [site \in {"no_credentials", "no_tools", "loop", "fallback"} |-> 0]
    /\ dispatch_log = <<>>
    /\ last_exc = "none"
    /\ request = NoRequest
    /\ posted = <<>>
    /\ exit_status = -1

\* What the two servers list in a review request
Listing(linear, github) == [s \in Servers |-> IF s = "linear" THEN linear ELSE github]

DefaultListing ==
    Listing(<<T("get_issue")>>, <<T("get_commit"), T("create_issue")>>)

RequestListings ==
    { DefaultListing,
      Listing(<<T("get_issue")>>, <<T("create_issue")>>),
      Listing(<<Tool("github_get_commit", "", "ABSENT")>>, <<T("get_commit")>>) }

\* Both servers are configured and connect without a failure.
FaultFree ==
    /\ linear_api_key /\ github_mcp_token /\ http_client
    /\ \A s \in Servers : conn_fail[s] = "none"

\* call_claude_with_mcp, for every pair of credentials, every listing and
\* every failure of a connection.  The model requests up to MaxToolCalls tool
\* invocations when both servers connected and list their usual tools, at
\* most one when they list something else, and none when a server is missing.
Init ==
    /\ pc = "start"
    /\ linear_api_key \in BOOLEAN
    /\ github_mcp_token \in BOOLEAN
    /\ http_client \in BOOLEAN
    /\ listed \in RequestListings
    /\ conn_fail \in [Servers -> FailPoints]
    /\ ~(linear_api_key /\ http_client) => conn_fail["linear"] = "none"
    /\ ~(github_mcp_token /\ http_client) => conn_fail["github"] = "none"
    /\ tool_budget = IF ~FaultFree THEN 0
                     ELSE IF listed = DefaultListing THEN MaxToolCalls ELSE 1
    /\ InitManagerState
    /\ InitCallState
    /\ NoPureRun

Next ==
    \/ NoCredentialsCall
    \/ EnterWithCredentials
    \/ EnterManager
    \/ ConnectLinear
    \/ ConnectGithub
    \/ NoToolsCall
    \/ StartConversation
    \/ ModelEndTurn
    \/ ModelToolUse
    \/ ModelUnexpectedStop
    \/ ModelRaises
    \/ MaxIterationsReached
    \/ SkipBlock
    \/ DispatchUnknownTool
    \/ CallTool
    \/ AppendToolResults
    \/ ManagerFinally
    \/ ReturnOutcome
    \/ FallbackCall
    \/ PropagateError
    \/ PostReviewComment
    \/ ReviewFailed

Spec == Init /\ [][Next]_vars

\* Every call awaited by the request returns or raises.
FairSpec == Spec /\ WF_vars(Next)

\* multi_mcp_sessions on its own, for every pair of credentials and listings
InitSessions ==
    /\ pc = "mgr_enter"
    /\ linear_api_key \in BOOLEAN
    /\ github_mcp_token \in BOOLEAN
    /\ http_client \in BOOLEAN
    /\ listed \in [Servers -> LinearListings \cup GithubListings]
    /\ listed["linear"] \in LinearListings
    /\ listed["github"] \in GithubListings
    /\ conn_fail \in [Servers -> FailPoints]
    /\ tool_budget = 0
    /\ InitManagerState
    /\ InitCallState
    /\ NoPureRun

NextSessions ==
    \/ EnterManager
    \/ ConnectLinear
    \/ ConnectGithub
    \/ ConsumerExit
    \/ ManagerFinally

SpecSessions == InitSessions /\ [][NextSessions]_vars

----------------------------------------------------------------------------
(* convert_mcp_tools_to_anthropic_format on its own                        *)

ConvNames == {"get_commit", "create_issue", "get_issue"}

ConvLists ==
    {<<>>} \cup {<<T(a)>> : a \in ConvNames}
    \cup {<<T(a), T(b)>> : a \in ConvNames, b \in ConvNames}
    \cup {<<Tool("get_commit", "", "ABSENT"), T("create_issue"), T("get_issue")>>}

ConvFilters == {NoFilter} \cup {Filter(S) : S \in SUBSET ConvNames}

InitConvert ==
    /\ pc = "convert"
    /\ conv_in \in [mcp_tools : ConvLists, prefix : {"", GITHUB_TOOL_PREFIX},
                    filter_set : ConvFilters]
    /\ conv_out = <<>>
    /\ conv_prev = <<>>
    /\ instr_in = EmptyBody
    /\ instr_out = NoInstructions
    /\ linear_api_key = FALSE
    /\ github_mcp_token = FALSE
    /\ http_client = FALSE
    /\ listed = [s \in Servers |-> <<>>]
    /\ conn_fail = [s \in Servers |-> "none"]
    /\ tool_budget = 0
    /\ InitManagerState
    /\ InitCallState

\* A builder that prefixes the names of the descriptors it was given in place
ApplyConvertMut ==
    /\ pc \in {"convert", "converted"}
    /\ conv_prev' = conv_out
    /\ conv_out' = convert_mcp_tools_to_anthropic_format(
                       conv_in.mcp_tools, conv_in.prefix, conv_in.filter_set)
    /\ conv_in' = [conv_in EXCEPT !.mcp_tools =
                       [i \in DOMAIN conv_in.mcp_tools |->
                           [conv_in.mcp_tools[i] EXCEPT
                               !.name = PrefixedName(conv_in.prefix, @)]]]
    /\ pc' = IF pc = "convert" THEN "converted" ELSE "reconverted"
    /\ UNCHANGED <<input_vars, main_vars, mgr_vars, body_exit, instr_in, instr_out,
                   call_vars>>

\* lines 156-187, called a first time and then again on the same arguments
ApplyConvert ==
    /\ pc \in {"convert", "converted"}
    /\ conv_prev' = conv_out
    /\ conv_out' = convert_mcp_tools_to_anthropic_format(
                       conv_in.mcp_tools, conv_in.prefix, conv_in.filter_set)
    /\ pc' = IF pc = "convert" THEN "converted" ELSE "reconverted"
    /\ UNCHANGED <<input_vars, main_vars, mgr_vars, body_exit, conv_in, instr_in,
                   instr_out, call_vars>>

NextConvert == ApplyConvert

SpecConvert == InitConvert /\ [][NextConvert]_vars

----------------------------------------------------------------------------
(* extract_reviewer_instructions on its own                                *)

\* How far from MAX_INSTRUCTION_LENGTH the lengths of the instructions range
MaxExcess == 30

InstructionLengths ==
    {n \in 1..MaxExcess : TRUE}
    \cup (MAX_INSTRUCTION_LENGTH - MaxExcess)..(MAX_INSTRUCTION_LENGTH + MaxExcess)

CommentBodies ==
    {EmptyBody, Body("no_match", FALSE, 0)}
    \cup {Body("match", TRUE, Len(t)) : t \in generic_triggers}
    \cup {Body("match", FALSE, n) : n \in InstructionLengths}

InitInstructions ==
    /\ pc = "extract"
    /\ instr_in \in CommentBodies
    /\ instr_out = NoInstructions
    /\ conv_in = NoConv
    /\ conv_out = <<>>
    /\ conv_prev = <<>>
    /\ linear_api_key = FALSE
    /\ github_mcp_token = FALSE
    /\ http_client = FALSE
    /\ listed = [s \in Servers |-> <<>>]
    /\ conn_fail = [s \in Servers |-> "none"]
    /\ tool_budget = 0
    /\ InitManagerState
    /\ InitCallState

\* line 1317
ExtractInstructions ==
    /\ pc = "extract"
    /\ instr_out' = extract_reviewer_instructions(instr_in)
    /\ pc' = "extracted"
    /\ UNCHANGED <<input_vars, main_vars, mgr_vars, body_exit, conv_in, conv_out,
                   conv_prev, instr_in, call_vars>>

NextInstructions == ExtractInstructions

SpecInstructions == InitInstructions /\ [][NextInstructions]_vars

----------------------------------------------------------------------------
(* Properties                                                               *)

\* The tool_use blocks of a response content, in order
ToolUses(content) == SelectSeq(content, LAMBDA b : b.type = "tool_use")

\* Turn t appended messages[2t] (the model's response) and, once its batch
\* was resolved, messages[2t + 1] (the tool results).
Turns == 1..max_iterations
Requested(t) == Len(messages) >= 2 * t
Resolved(t) == Len(messages) >= 2 * t + 1
RequestOf(t) == messages[2 * t].content
ResultsOf(t) == messages[2 * t + 1].content

ToolUseTurns == Cardinality({k \in DOMAIN messages : messages[k].role = "assistant"})

HasReturned == pc = "done" /\ outcome.kind = "returned"

LoopEnded == exit_kind \in {"end_turn", "unexpected_stop", "exhausted", "error"}

\* C1: the turn counter never decreases and never exceeds 10, it counts the
\* model invocations of the loop, and every conversation that enters the loop
\* ends in completion, salvage, exhaustion or an error.
TurnsBoundedAndLoopEnds ==
    /\ [](iteration <= max_iterations /\ calls["loop"] <= max_iterations)
    /\ [][iteration' >= iteration]_vars
    /\ [](pc \in {"loop", "tools"} => calls["loop"] = iteration)
    /\ (pc = "loop") ~> LoopEnded

TurnsBoundedWitness ==
    pc = "done" /\ exit_kind = "exhausted" /\ iteration = max_iterations

\* C2: after 10 tool-requesting responses the returned text is the fixed
\* exhaustion message, and the loop made exactly 10 model invocations.
ExhaustionYieldsSentinel ==
    /\ calls["loop"] <= max_iterations
    /\ exit_kind = "exhausted" =>
         /\ outcome.text = EXHAUSTED_TEXT
         /\ ToolUseTurns = max_iterations
    /\ (outcome.kind = "returned" /\ ToolUseTurns = max_iterations) =>
         /\ exit_kind = "exhausted"
         /\ outcome.text = EXHAUSTED_TEXT
         /\ calls["loop"] = max_iterations
         /\ calls["fallback"] = 0

ExhaustionWitness ==
    /\ HasReturned
    /\ exit_kind = "exhausted"
    /\ tool_call_count >= 1
    /\ response.content # <<>>

\* C3: every tool-result entry of the history holds one result per tool_use
\* block of the response before it, in that order, with that block's id.
BatchResultsMatchRequests ==
    \A t \in Turns :
        Resolved(t) =>
            LET uses == ToolUses(RequestOf(t))
                res == ResultsOf(t)
            IN /\ messages[2 * t].role = "assistant"
               /\ messages[2 * t + 1].role = "user"
               /\ Len(res) = Len(uses)
               /\ \A j \in 1..Len(res) :
                      /\ res[j].type = "tool_result"
                      /\ res[j].tool_use_id = uses[j].id

BatchResultsWitness ==
    \E t \in Turns :
        /\ Resolved(t)
        /\ Len(ResultsOf(t)) = 2
        /\ Len(RequestOf(t)) = 3
        /\ ResultsOf(t)[1].is_error
        /\ ~ResultsOf(t)[2].is_error

\* The exception classes the claim names: timeout, connection error, OS
\* error and runtime error
NamedToolFailures == {"TimeoutError", "ConnectionError", "OSError", "RuntimeError"}

IsToolError(r) == r.is_error /\ r.content = <<"Error executing tool: ", "str(e)">>
IsUnknownTool(r) == r.is_error /\ r.content # <<>> /\ r.content[1] = "Unknown tool: "

FailedIn(t) == Resolved(t) /\ \E j \in 1..Len(ResultsOf(t)) : IsToolError(ResultsOf(t)[j])

\* C4 as stated: whenever a tool invocation failed in a turn of a request
\* that returned, a later model turn took place.
ToolFailureThenNextTurn ==
    \A t \in Turns : (HasReturned /\ FailedIn(t)) => calls["loop"] > t

\* C4, amended: a failure of one of the named classes adds an error result
\* for that invocation and moves on to the next block without leaving the
\* batch; the batch of a failed invocation is resolved in full; and a request
\* that returned went on to the next model turn, or, after the 10th turn,
\* ended with the exhaustion message.
ToolFailureIsolated ==
    /\ [][(pc = "tools" /\ last_exc' \in NamedToolFailures) =>
            /\ pc' = "tools"
            /\ block_idx' = block_idx + 1
            /\ tool_results' =
                   Append(tool_results,
                          [type |-> "tool_result", tool_use_id |-> CurrentBlock.id,
                           content |-> <<"Error executing tool: ", "str(e)">>,
                           is_error |-> TRUE])
            /\ messages' = messages
            /\ body_exit' = body_exit]_vars
    /\ [](\A t \in Turns :
            FailedIn(t) =>
                /\ Len(ResultsOf(t)) = Len(ToolUses(RequestOf(t)))
                /\ HasReturned =>
                       \/ calls["loop"] > t
                       \/ t = max_iterations /\ outcome.text = EXHAUSTED_TEXT)

ToolFailureWitness ==
    \E t \in Turns :
        /\ HasReturned
        /\ FailedIn(t)
        /\ calls["loop"] > t
        /\ Len(ResultsOf(t)) = 2
        /\ IsToolError(ResultsOf(t)[1])
        /\ ~ResultsOf(t)[2].is_error

UnknownIn(t) ==
    Requested(t) /\ \E j \in 1..Len(RequestOf(t)) :
        RequestOf(t)[j].type = "tool_use" /\ RequestOf(t)[j].name \notin DOMAIN tool_router

\* C5 as stated: whenever an unknown tool was requested in a turn of a request
\* that returned, a later model turn took place.
UnknownToolThenNextTurn ==
    \A t \in Turns : (HasReturned /\ UnknownIn(t)) => calls["loop"] > t

\* C5, amended: a request for a tool that is not in the router is never
\* dispatched and gets the "Unknown tool" error result at its place in the
\* batch, the routed requests of the batch are dispatched and get their own
\* results, and a request that returned went on to the next model turn, or,
\* after the 10th turn, ended with the exhaustion message.
UnknownToolIsolated ==
    \A t \in Turns :
        Requested(t) =>
            LET uses == ToolUses(RequestOf(t)) IN
            /\ \A j \in 1..Len(uses) :
                   LET dispatched ==
                           \E k \in 1..Len(dispatch_log) : dispatch_log[k].id = uses[j].id
                   IN IF uses[j].name \notin DOMAIN tool_router
                      THEN /\ ~dispatched
                           /\ Resolved(t) =>
                                  /\ ResultsOf(t)[j].is_error
                                  /\ ResultsOf(t)[j].tool_use_id = uses[j].id
                                  /\ ResultsOf(t)[j].content = <<"Unknown tool: ", uses[j].name>>
                      ELSE Resolved(t) =>
                                  /\ dispatched
                                  /\ ~IsUnknownTool(ResultsOf(t)[j])
            /\ (HasReturned /\ UnknownIn(t)) =>
                   \/ calls["loop"] > t
                   \/ t = max_iterations /\ outcome.text = EXHAUSTED_TEXT

UnknownToolWitness ==
    \E t \in Turns :
        /\ HasReturned
        /\ Resolved(t)
        /\ calls["loop"] > t
        /\ Len(ResultsOf(t)) = 2
        /\ IsUnknownTool(ResultsOf(t)[1])
        /\ ~ResultsOf(t)[2].is_error
        /\ Len(dispatch_log) = 1

\* The server a catalog entry came from, and the name that server listed it under
Owner(i) == IF i <= linear_tool_count THEN "linear" ELSE "github"
KeptGithub == SelectSeq(listed["github"], LAMBDA t : t.name \in GITHUB_ESSENTIAL_TOOLS)
OriginalListed(i) ==
    IF i <= linear_tool_count THEN listed["linear"][i].name
    ELSE KeptGithub[i - linear_tool_count].name

\* C6: every dispatched invocation went to the server that listed the catalog
\* entry of that exposed name, under the name that server listed.
DispatchOnOwningServer ==
    \A k \in 1..Len(dispatch_log) :
        \A i \in 1..Len(all_tools) :
            all_tools[i].name = dispatch_log[k].exposed =>
                /\ dispatch_log[k].session = Owner(i)
                /\ dispatch_log[k].name = OriginalListed(i)

Past(places) == pc \in places

\* C7: the merged catalog holds no two entries with the same exposed name.
CatalogNamesUnique ==
    \A i, j \in 1..Len(all_tools) :
        all_tools[i].name = all_tools[j].name => i = j

\* C8: stripping the prefix from the exposed name of a GitHub catalog entry,
\* and the original name the router holds for it, give the name GitHub listed.
PrefixRoundTrip ==
    /\ conn_log["github"] = "none" => github_tool_count = Len(KeptGithub)
    /\ \A i \in 1..github_tool_count :
           LET entry == all_tools[linear_tool_count + i]
               original == KeptGithub[i].name
           IN /\ StartsWith(entry.name, GITHUB_TOOL_PREFIX)
              /\ DropFirst(entry.name, Len(GITHUB_TOOL_PREFIX)) = original
              /\ entry.name \in DOMAIN tool_router
              /\ tool_router[entry.name].original_name = original

PrefixRoundTripWitness ==
    /\ pc = "yielded"
    /\ github_tool_count = 2
    /\ linear_tool_count = 2

\* C9: with an allow-list given, the result holds exactly the descriptors
\* whose original name is in the allow-list.
AllowListDropsAbsent ==
    (pc = "converted" /\ conv_in.filter_set.given) =>
        LET kept == SelectSeq(conv_in.mcp_tools,
                              LAMBDA t : t.name \in conv_in.filter_set.names)
        IN /\ Len(conv_out) = Len(kept)
           /\ \A i \in 1..Len(conv_out) :
                  conv_out[i].name = conv_in.prefix \o kept[i].name

\* What a server that connected contributes on its own
LinearAlone == convert_mcp_tools_to_anthropic_format(listed["linear"], "", NoFilter)
GithubAlone ==
    convert_mcp_tools_to_anthropic_format(
        listed["github"], GITHUB_TOOL_PREFIX, Filter(GITHUB_ESSENTIAL_TOOLS))
Connected(s) == conn_log[s] = "none"
Failed(s) == conn_log[s] \in {"connect", "session", "initialize", "list_tools"}
Configured(s) == IF s = "linear" THEN linear_api_key ELSE github_mcp_token

\* C10: once the manager has yielded, a server that failed has no tool and no
\* router entry, the other server was still attempted and contributes what it
\* contributes alone, and no failure left the manager.
ServerFailureIsolated ==
    Past({"yielded", "release", "exited"}) =>
        /\ body_exit # "manager_raised"
        /\ \A s \in Servers :
               /\ (http_client /\ Configured(s)) => (Connected(s) \/ Failed(s))
               /\ Failed(s) =>
                      /\ (IF s = "linear" THEN linear_tool_count ELSE github_tool_count) = 0
                      /\ \A n \in DOMAIN tool_router : tool_router[n].session # s
        /\ all_tools = (IF Connected("linear") THEN LinearAlone ELSE <<>>)
                       \o (IF Connected("github") THEN GithubAlone ELSE <<>>)
        /\ Failed("linear") =>
               tool_router = AddGithubTools(IF Connected("github") THEN GithubAlone ELSE <<>>,
                                            EmptyRouter)
        /\ Failed("github") =>
               tool_router = AddLinearTools(IF Connected("linear") THEN LinearAlone ELSE <<>>,
                                            EmptyRouter)

ServerFailureWitness ==
    /\ pc = "yielded"
    /\ conn_log["linear"] = "initialize"
    /\ Connected("github")
    /\ github_tool_count = 2
    /\ linear_tool_count = 0
    /\ Len(listed["linear"]) = 2

\* The position of resource r in the release log, or 0
ReleasedAt(r) ==
    IF \E i \in 1..Len(released) : released[i] = r
    THEN CHOOSE i \in 1..Len(released) : released[i] = r
    ELSE 0

\* C11: on exit from the manager every resource a connection block entered
\* has been released, and what GitHub opened is released before what Linear
\* opened, whether the body of the async-with returned or raised.
OpenedAreReleasedInReverse ==
    pc = "exited" =>
        /\ \A r \in opened : ReleasedAt(r) > 0
        /\ \A r, q \in opened :
               (r[2] = "github" /\ q[2] = "linear") => ReleasedAt(r) < ReleasedAt(q)

\* C12: whichever __aexit__ calls raise, the finally clause calls __aexit__
\* on the session and the context of every tracked pair, and it changes
\* neither the way the body left the async-with nor the outcome.
ReleaseErrorsSwallowed ==
    /\ [](pc \in {"exited", "done"} =>
            released = ReleaseCalls(Reversed(sessions_to_close)))
    /\ [][pc = "release" => (body_exit' = body_exit /\ outcome' = outcome)]_vars

ReleaseErrorsWitness ==
    /\ pc = "done"
    /\ aexit_raised = {<<"session", "github">>}
    /\ sessions_to_close = <<"linear", "github">>
    /\ Len(released) = 4
    /\ outcome.kind = "returned"
    /\ tool_call_count > 0

\* The shape of an outcome obtained without tools
Toolless(o) ==
    /\ ~o.had_linear
    /\ ~o.had_github
    /\ o.tool_call_count = 0
    /\ o.linear_issue_data = None

CallsAre(site_counts) == calls = site_counts @@ [site \in DOMAIN calls |-> 0]

\* C13: without any credential the request makes one model invocation, with
\* no tools and the original content blocks only, never enters the manager or
\* attempts a connection, and what it returns has both context flags false, a
\* tool-call count of 0 and no side-data.
NoCredentialsSingleToollessCall ==
    (~linear_api_key /\ ~github_mcp_token
         /\ pc \notin {"convert", "converted", "reconverted", "extract", "extracted"}) =>
        /\ pc \in {"start", "done", "main_done"}
        /\ opened = {} /\ released = <<>> /\ sessions_to_close = <<>>
        /\ \A s \in Servers : conn_log[s] = "not_attempted"
        /\ dispatch_log = <<>>
        /\ pc \in {"done", "main_done"} =>
               /\ CallsAre([no_credentials |-> 1])
               /\ request = ToollessRequest(InitialMessages)
               /\ outcome.kind = "returned" => Toolless(outcome)

NoCredentialsWitness ==
    /\ pc = "done"
    /\ ~linear_api_key /\ ~github_mcp_token
    /\ http_client
    /\ outcome.kind = "returned"
    /\ outcome.text = <<"a", "NL", "b">>

\* Credentials were supplied, and the transport is unavailable or every
\* configured server fails to connect or handshake.
Degraded ==
    /\ linear_api_key \/ github_mcp_token
    /\ \/ ~http_client
       \/ \A s \in Servers : Configured(s) => conn_fail[s] # "none"

\* C14: when the transport is unavailable or every configured server fails,
\* the request makes the toolless model invocation and no invocation with
\* tools, dispatches nothing, no failure of a server leaves the manager, and
\* when that invocation answers, its outcome is returned with both flags
\* false, a tool-call count of 0 and no side-data, after one invocation.
DegradedSameShape ==
    (Degraded /\ pc = "done") =>
        /\ calls["no_tools"] = 1 /\ calls["loop"] = 0 /\ calls["no_credentials"] = 0
        /\ ~request.with_tools /\ request.messages = InitialMessages
        /\ dispatch_log = <<>> /\ messages = <<>>
        /\ body_exit \in {"return", "recoverable", "other"}
        /\ body_exit = "return" =>
               /\ CallsAre([no_tools |-> 1])
               /\ outcome.kind = "returned"
        /\ outcome.kind = "returned" => Toolless(outcome)

DegradedWitness ==
    /\ pc = "done"
    /\ linear_api_key /\ github_mcp_token /\ http_client
    /\ conn_log["linear"] = "connect"
    /\ conn_log["github"] = "initialize"
    /\ released = <<<<"session", "github">>, <<"ctx", "github">>>>
    /\ outcome.kind = "returned"
    /\ CallsAre([no_tools |-> 1])

\* C15: a recoverable error that left the body of the async-with is caught:
\* one fallback invocation is made, without tools and with the original
\* content blocks as its only message, and what it returns has both context
\* flags false, a tool-call count of 0 and no side-data, whatever the loop
\* had accumulated.
RecoverableErrorFallsBack ==
    /\ calls["fallback"] <= 1
    /\ (pc = "done" /\ body_exit = "recoverable") =>
           /\ exit_kind = "fallback"
           /\ calls["fallback"] = 1
           /\ request = ToollessRequest(InitialMessages)
           /\ \A i \in 1..Len(request.messages) :
                  request.messages[i].content = initial_content
           /\ outcome.kind = "returned" => Toolless(outcome)

RecoverableErrorWitness ==
    /\ pc = "done"
    /\ exit_kind = "fallback"
    /\ outcome.kind = "returned"
    /\ iteration >= 2
    /\ tool_call_count > 0
    /\ linear_issue_data # None
    /\ had_linear /\ had_github
    /\ Len(messages) >= 3

\* The recoverable transport class: timeout, connection error, OS error
TransportClass(cls) == Bases(cls) \cap {"TimeoutError", "ConnectionError", "OSError"} # {}

CallEnded == pc \in {"done", "main_done"}

\* C16: when the call in the body of the async-with raised an exception that
\* is not of the transport class, call_claude_with_mcp raises without having
\* made the fallback invocation; and whenever call_claude_with_mcp raised,
\* async_main posts no comment and returns 1.
NonRecoverablePropagates ==
    /\ (CallEnded /\ last_exc # "none" /\ ~TransportClass(last_exc)) =>
           /\ outcome.kind = "raised"
           /\ calls["fallback"] = 0
    /\ (pc = "main_done" /\ outcome.kind = "raised") =>
           /\ posted = <<>>
           /\ exit_status = 1
    /\ (pc = "main_done" /\ exit_status = 0) => outcome.kind = "returned"

NonRecoverableWitness ==
    /\ pc = "main_done"
    /\ last_exc = "McpError"
    /\ tool_call_count = 2
    /\ Len(messages) = 4
    /\ Len(released) = 4
    /\ exit_status = 1
    /\ posted = <<>>

UnexpectedStop(r) == r.stop_reason \notin {"none", "end_turn", "tool_use"}

\* C17: a response whose stop reason is neither end_turn nor tool_use ends
\* the loop in the step that receives it: nothing is dispatched and nothing
\* is appended to the history, the body returns, and the outcome carries the
\* cleaned text of that response (a fixed sentence if it has none) with the
\* flags, the tool-call count and the side-data accumulated so far; no
\* fallback invocation follows and call_claude_with_mcp does not raise.
UnexpectedStopSalvaged ==
    /\ [][(pc = "loop" /\ UnexpectedStop(response')) =>
            /\ pc' = "release"
            /\ body_exit' = "return"
            /\ dispatch_log' = dispatch_log
            /\ messages' = messages
            /\ tool_call_count' = tool_call_count
            /\ outcome' = Returned(outcome'.text, had_linear, had_github,
                                   tool_call_count, linear_issue_data)
            /\ LET text == ConcatText(response'.content)
               IN outcome'.text = IF text # <<>> THEN strip_tool_simulation_markup(text)
                                  ELSE UNEXPECTED_STOP_TEXT]_vars
    /\ [](UnexpectedStop(response) =>
            /\ exit_kind = "unexpected_stop"
            /\ outcome.kind = "returned"
            /\ calls["fallback"] = 0
            /\ pc \in {"release", "exited", "done", "main_done"})

UnexpectedStopWitness ==
    /\ pc = "main_done"
    /\ exit_kind = "unexpected_stop"
    /\ \E i \in 1..Len(response.content) : response.content[i].type = "tool_use"
    /\ outcome.text = <<"a", "NL", "b">>
    /\ outcome.tool_call_count = 2
    /\ outcome.linear_issue_data # None
    /\ Len(dispatch_log) = 2
    /\ iteration = 3
    /\ Len(posted) = 1

\* The last call_tool made, and the result a get_issue call is expected to give
LastDispatch(log) == log[Len(log)]
WellFormedIssue == <<[type |-> "text", text |-> <<"ISSUE_JSON">>]>>

\* A step in which get_issue was called, no side-data being captured yet,
\* and answered with a result of another shape than the expected one
MalformedIssueStep ==
    /\ pc = "tools"
    /\ linear_issue_data = None
    /\ Len(dispatch_log') = Len(dispatch_log) + 1
    /\ LastDispatch(dispatch_log').name = "get_issue"
    /\ ~LastDispatch(dispatch_log').raised
    /\ LastDispatch(dispatch_log').result # WellFormedIssue

\* C18 as stated: a get_issue result of an unexpected shape leaves the
\* side-data empty, its tool-result entry is appended with the result as
\* content, and the batch goes on: the body of the async-with is not left.
MalformedPayloadHarmless ==
    [][MalformedIssueStep =>
        /\ linear_issue_data' = None
        /\ tool_results' =
               Append(tool_results,
                      [type |-> "tool_result", tool_use_id |-> CurrentBlock.id,
                       content |-> LastDispatch(dispatch_log').result,
                       is_error |-> FALSE])
        /\ pc' = "tools"
        /\ body_exit' = body_exit]_vars

\* C19 as stated: the side-data changes only from empty to the summary of a
\* get_issue result of the expected shape, in the step that received that
\* result from a call that did not raise, and never changes once it is set.
SideDataCapturedOnce ==
    [][linear_issue_data' # linear_issue_data =>
        /\ linear_issue_data = None
        /\ pc = "tools"
        /\ Len(dispatch_log') = Len(dispatch_log) + 1
        /\ LastDispatch(dispatch_log').name = "get_issue"
        /\ ~LastDispatch(dispatch_log').raised
        /\ LastDispatch(dispatch_log').result = WellFormedIssue
        /\ linear_issue_data' = IssueData(WellFormedIssue)]_vars

HasTag(text) == \E i \in 1..Len(text) : text[i] \in {"OPEN", "CLOSE", "SELF"}

\* Places where the text of an outcome came out of the cleanup
CleanedExits == {"end_turn", "unexpected_stop", "no_tools", "no_credentials", "fallback"}

\* C20: every tool result recorded in the history without an error mark has
\* as content what the tool server returned for that invocation, tags
\* included; the response recorded in the history is the one the model sent;
\* and the text of a returned outcome is the cleaned text of the last
\* response, with no tag left.
CleanupOnlyOnFinalText ==
    /\ \A t \in Turns :
           Resolved(t) =>
               \A j \in 1..Len(ResultsOf(t)) :
                   ~ResultsOf(t)[j].is_error =>
                       \E k \in 1..Len(dispatch_log) :
                           /\ dispatch_log[k].id = ResultsOf(t)[j].tool_use_id
                           /\ ~dispatch_log[k].raised
                           /\ ResultsOf(t)[j].content = dispatch_log[k].result
    /\ pc = "tools" => messages[Len(messages)].content = response.content
    /\ (outcome.kind = "returned" /\ exit_kind \in CleanedExits) =>
           /\ ~HasTag(outcome.text)
           /\ exit_kind = "end_turn" =>
                  outcome.text = strip_tool_simulation_markup(ConcatText(response.content))

CleanupWitness ==
    /\ pc = "main_done"
    /\ exit_kind = "end_turn"
    /\ response.content = <<TextBlock(MarkupText)>>
    /\ outcome.text = <<"a", "NL", "b">>
    /\ Resolved(1)
    /\ Len(ResultsOf(1)) = 1
    /\ ~ResultsOf(1)[1].is_error
    /\ ResultsOf(1)[1].content = <<[type |-> "text", text |-> MarkupText]>>
    /\ Len(posted) = 1

\* The number of tools a server contributed to the catalog
Contributed(s) == IF s = "linear" THEN linear_tool_count ELSE github_tool_count

\* A configured server did not connect or contributed no tool, or the text
\* comes from the call made without tools after a failure
ContextDegraded ==
    \/ \E s \in Servers : Configured(s) /\ (~Connected(s) \/ Contributed(s) = 0)
    \/ exit_kind = "fallback"

\* C21 as stated: whenever the context was degraded, the posted comment
\* carries the annotation that the Linear context was unavailable.
DegradedIsAnnotated ==
    \A i \in 1..Len(posted) : ContextDegraded => posted[i].linear_warning

\* C22: at most one comment is posted, only once call_claude_with_mcp has
\* returned its outcome, and with the text of that outcome; async_main
\* returns 0 exactly when the outcome was returned and the comment posted,
\* and 1 in every other case in which it has returned.
CommentPostedOnce ==
    /\ Len(posted) <= 1
    /\ posted # <<>> =>
           /\ pc = "main_done"
           /\ outcome.kind = "returned"
           /\ posted[1].review_text = outcome.text
    /\ pc # "main_done" => exit_status = -1
    /\ pc = "main_done" =>
           /\ exit_status \in {0, 1}
           /\ exit_status = 0 <=> (outcome.kind = "returned" /\ Len(posted) = 1)

CommentPostedWitness ==
    /\ pc = "main_done"
    /\ exit_status = 1
    /\ outcome.kind = "returned"
    /\ exit_kind = "exhausted"
    /\ tool_call_count = 2
    /\ posted = <<>>

InstructionsWithinMaximum ==
    pc = "extracted" => instr_out.length <= MAX_INSTRUCTION_LENGTH

\* A turn starts with a model call
TurnStarts == iteration' = iteration + 1

LastMessage == messages[Len(messages)]

\* C25 as stated: every turn appends exactly one model-response entry to the
\* message history.
EveryTurnAppendsResponse ==
    [][TurnStarts =>
          /\ Len(messages') >= Len(messages) + 1
          /\ messages'[Len(messages) + 1].role = "assistant"]_vars

\* C25, amended: a turn in which the model requests tools appends the model's
\* response and, once every block of the batch has been dealt with, one entry
\* with one result per requested tool right after it; a turn that ends the
\* conversation appends nothing; nothing else changes the message history
\* once the loop has set it up.
HistoryGrowsByToolTurns ==
    /\ [][TurnStarts =>
             IF pc' = "tools"
             THEN messages' = Append(messages, [role |-> "assistant",
                                                content |-> response'.content])
             ELSE messages' = messages]_vars
    /\ [][(pc = "tools" /\ pc' = "loop") =>
             /\ LastMessage.role = "assistant"
             /\ messages' = Append(messages, [role |-> "user", content |-> tool_results])
             /\ Len(tool_results) = Len(ToolUses(LastMessage.content))
             /\ \A i \in DOMAIN tool_results :
                    tool_results[i].tool_use_id = ToolUses(LastMessage.content)[i].id]_vars
    /\ [][messages' # messages =>
             \/ pc = "yielded" /\ pc' = "loop" /\ messages' = InitialMessages
             \/ pc = "loop" /\ pc' = "tools" /\ TurnStarts
             \/ pc = "tools" /\ pc' = "loop"]_vars
    /\ [](pc = "loop" => Len(messages) = 1 + 2 * iteration)

HistoryWitness ==
    /\ pc = "main_done"
    /\ exit_kind = "end_turn"
    /\ iteration = 3
    /\ Len(messages) = 5
    /\ Len(messages[5].content) = 1
    /\ messages[4].role = "assistant"

\* The text-typed segments of a response, and their texts joined in order
TextSegments(content) == SelectSeq(content, LAMBDA b : b.type = "text")

RECURSIVE JoinTexts(_)
JoinTexts(blocks) ==
    IF blocks = <<>> THEN <<>>
    ELSE JoinTexts(SubSeq(blocks, 1, Len(blocks) - 1)) \o blocks[Len(blocks)].text

\* C26: on ordinary completion the returned text is the cleaned concatenation,
\* in order, of the text-typed segments of the last model response and of
\* nothing else.
FinalTextIsLastResponseText ==
    exit_kind = "end_turn" =>
        /\ response.stop_reason = "end_turn"
        /\ outcome.kind = "returned"
        /\ outcome.text =
               strip_tool_simulation_markup(JoinTexts(TextSegments(response.content)))

FinalTextWitness ==
    /\ pc = "main_done"
    /\ exit_kind = "end_turn"
    /\ Len(messages) = 3
    /\ TextSegments(messages[2].content) # <<>>
    /\ Len(response.content) = 3
    /\ Len(TextSegments(response.content)) = 2
    /\ response.content[2].type = "tool_use"
    /\ outcome.text = <<"a", "NL", "b">>

\* A step that invokes the model, and a step that resolves a requested tool
ModelInvoked == calls' # calls
ToolInvoked == tool_call_count' # tool_call_count

\* Every model response of a history is followed by one result per tool it
\* requested, in request order
AllResolved(msgs) ==
    \A k \in DOMAIN msgs :
        msgs[k].role = "assistant" =>
            /\ k + 1 \in DOMAIN msgs
            /\ msgs[k + 1].role = "user"
            /\ Len(msgs[k + 1].content) = Len(ToolUses(msgs[k].content))
            /\ \A i \in DOMAIN msgs[k + 1].content :
                   msgs[k + 1].content[i].tool_use_id = ToolUses(msgs[k].content)[i].id

\* C27: the model is invoked for the next turn only once every tool requested
\* in the previous turn has been resolved and its result appended, and no step
\* is both a model invocation and a tool invocation.
TurnsDoNotOverlap ==
    /\ [][ModelInvoked =>
             /\ ~ToolInvoked
             /\ pc # "tools"
             /\ AllResolved(request'.messages)
             /\ (pc = "loop" => /\ request'.messages = messages
                                /\ iteration > 0 => block_idx > Len(response.content))]_vars
    /\ [][ToolInvoked => pc = "tools" /\ ~ModelInvoked /\ ~AllResolved(messages)]_vars

TurnsDoNotOverlapWitness ==
    /\ calls["loop"] = 2
    /\ Len(request.messages) = 3
    /\ Len(ToolUses(request.messages[2].content)) = 2
    /\ Len(request.messages[3].content) = 2
    /\ request.messages[3].content[1].is_error
    /\ ~request.messages[3].content[2].is_error

\* C28 as stated: a context flag of the outcome is true only if that server
\* connected and contributed at least one tool.
ContextFlagsReflectServers ==
    outcome.kind = "returned" =>
        /\ outcome.had_github => Connected("github") /\ github_tool_count > 0
        /\ outcome.had_linear => Connected("linear") /\ linear_tool_count > 0

IsTracked(server) == \E i \in DOMAIN sessions_to_close : sessions_to_close[i] = server

\* C29: every session the router refers to is tracked and was opened and
\* initialised; a tool is dispatched only on such a session and only before
\* any connection is released; once release has begun no tool is invoked, and
\* the model call made after it carries no tools.
RouterSessionsAreLive ==
    /\ [](\A name \in DOMAIN tool_router :
              LET server == tool_router[name].session
              IN /\ IsTracked(server)
                 /\ {<<"ctx", server>>, <<"session", server>>} \subseteq opened
                 /\ Connected(server))
    /\ [][dispatch_log' # dispatch_log =>
             /\ pc = "tools"
             /\ released = <<>>
             /\ IsTracked(dispatch_log'[Len(dispatch_log')].session)]_vars
    /\ [][(pc \in {"release", "exited", "done", "main_done"}) =>
             (/\ tool_call_count' = tool_call_count
              /\ dispatch_log' = dispatch_log
              /\ tool_results' = tool_results)]_vars
    /\ [][(ModelInvoked /\ pc = "exited") =>
             ~request'.with_tools /\ request'.tools = <<>>]_vars

RouterSessionsWitness ==
    /\ pc = "main_done"
    /\ exit_kind = "fallback"
    /\ Len(dispatch_log) = 2
    /\ dispatch_log[2].session = "github"
    /\ Len(released) = 4
    /\ ~request.with_tools
    /\ outcome.kind = "returned"

TotalCalls ==
    calls["no_credentials"] + calls["no_tools"] + calls["loop"] + calls["fallback"]

\* C30: one request makes at most max_iterations model invocations inside
\* the loop and at most one fallback invocation, max_iterations + 1 in all,
\* and nothing is invoked again after the fallback, whether it failed or not.
ModelCallsBounded ==
    /\ [](/\ calls["loop"] <= max_iterations
          /\ calls["fallback"] <= 1
          /\ TotalCalls <= max_iterations + 1)
    /\ [][calls["fallback"] > 0 => calls' = calls]_vars

ModelCallsWitness ==
    /\ pc = "main_done"
    /\ calls["loop"] = max_iterations
    /\ calls["fallback"] = 1
    /\ TotalCalls = max_iterations + 1
    /\ exit_kind = "fallback"
    /\ outcome.kind = "raised"

====
